---------------------------- MODULE Spec2Model ----------------------------
(***************************************************************************)
(* Pipeline Defender: the game core (js/game.js, class                     *)
(* PipelineDefenderGame) together with the callers that decide when its    *)
(* methods run: the input handler (js/input.js) and the screen manager     *)
(* (ScreenManager: showScreen, startGame, endGame, ESC navigation).        *)
(*                                                                         *)
(* Every handler of the program is one atomic action, as the browser's     *)
(* single-threaded event loop runs it.  The body of a handler is a         *)
(* function from the program state (a record with one field per variable)  *)
(* to the program state, written in the order of the code's statements.    *)
(*                                                                         *)
(* Lengths: the playing field of the program is at least 400 x 300 pixels  *)
(* and an entity lives for hundreds of frames.  The model keeps every      *)
(* formula of the code and evaluates it on a scaled-down configuration     *)
(* (sizes, speeds, field and game time are small integers; an entity       *)
(* crosses the field in a few frames), so that the whole state space can   *)
(* be enumerated.  Scores (10, 1000), the win length (4) and the minimum    *)
(* and fallback play areas of updateGameBounds are the program's own       *)
(* numbers.                                                                *)
(*                                                                         *)
(* Specifications: Spec (one session; keyboard, touch and focus events),   *)
(* SpecPipeline (one session with enough power-ups to complete the         *)
(* pipeline), SpecBounds (the session start under every display),          *)
(* SpecRestart (session after session), SpecFault (ticks that throw),      *)
(* SpecEarlyEscape (Escape pressed before startNewGame has run), SpecLive  *)
(* (SpecRestart with a countdown that keeps firing), SpecIntro (the intro  *)
(* skipped, its timeout pending), SpecInitializer (js/init.js, the start   *)
(* of the page) and SpecLeaderboard (LeaderboardManager and localStorage). *)
(* The game also tells the DOM display (js/display.js) which entities it   *)
(* creates and removes; the display's tracking map is part of the state.   *)
(***************************************************************************)
EXTENDS Integers, Sequences, FiniteSets, TLC

(***************************************************************************)
(* Bounds of the explorations: how many entities of each kind one session  *)
(* may create (the id counters stop there) and how far into the list of    *)
(* available types a random draw may reach.                                *)
(***************************************************************************)
MaxProjectiles == 2
MaxBugs == 2
MaxPowerUps == 1
MaxPick == 2
PipelineProjectiles == 4
PipelineBugs == 1
PipelinePowerUps == 4

(***************************************************************************)
(* config (game.js:14-26), scaled.                                         *)
(***************************************************************************)
gameTime == 2
playerSpeed == 1
projectileSpeed == 2
bugSpeed == 1
powerUpSpeed == 2
playerSize == 1
projectileSize == 1
bugSize == 2
powerUpSize == 3

\* the literals of the code, scaled: projectile height (12), the player's
\* distance from the bottom (20), the projectile's start above the player
\* (15), the buffer above the bottom where a bug ends the game (30)
projectileHeight == 1
playerBottomMargin == 1
projectileStartOffset == 1
bottomBuffer == 1

\* the play area that updateGameBounds reads from the display, scaled
gameWidth == 3
gameHeight == 4

\* the minimum and the fallback play area of updateGameBounds, in pixels
minGameWidth == 400
minGameHeight == 300
fallbackGameWidth == 800
fallbackGameHeight == 600

\* points per bug kill and per power-up, and the win length
killScore == 10
powerUpScore == 1000
pipelineLength == 4

bugTypes == <<"Functional Errors", "Security Bugs", "Quality Bugs", "Embedded Secrets">>
powerUpTypes == <<"TEST", "CSM", "SEC", "QUAL">>

Range(f) == {f[i] : i \in DOMAIN f}

bugToPowerUpMap ==
    [t \in Range(bugTypes) |->
        CASE t = "Functional Errors" -> "TEST"
          [] t = "Security Bugs" -> "SEC"
          [] t = "Quality Bugs" -> "QUAL"
          [] t = "Embedded Secrets" -> "CSM"]

NoResult == [success |-> FALSE, message |-> "none"]
NoSnapshot == [taken |-> FALSE]
NoScreen == "none"

VARIABLES
    gameState,          \* 'menu' | 'playing' | 'gameover' (game.js:8)
    isRunning,
    isPaused,
    player,             \* [x, y, width, height]
    projectiles,        \* sequence of [id, x, y, width, height]
    bugs,               \* sequence of [id, x, y, width, height, type]
    powerUps,           \* sequence of [id, x, y, width, height, type]
    score,
    timeLeft,
    collectedPowerUps,  \* sequence of power-up types, in collection order
    bugStats,           \* kills per bug type
    nextProjectileId,
    nextBugId,
    nextPowerUpId,
    lastGameResult,     \* the result summary of the last endGame, or NoResult
    timerInterval,      \* the handle startTimer stored, 0 for none
    activeTimers,       \* handles of the intervals the browser still fires
    rafPending,         \* frame callbacks requested and not yet run
    currentScreen,      \* ScreenManager.currentScreen
    isTransitioning,    \* ScreenManager.isTransitioning
    pendingShow,        \* target of the pending showScreen timeout
    startPending,       \* startGame's timeout (startNewGame) is pending
    introTimer,         \* playIntroSequence's timeout (9 s) is pending
    gameObjects,        \* DisplayManager.gameObjects: the tracking map, as
                        \* the set of its entries [key, element]
    endCalls,           \* history: session-ended notifications since startNewGame
    atEnd,              \* history: the session state when endGame first ran
    removedIds,         \* history: per kind, the ids the display was told to
                        \* remove since the display was last cleared
    staleNotice,        \* history: an update or removal notification named
                        \* an id already in removedIds
    displayReport,      \* what window.display answers to updateGameBounds
    gameBounds          \* [width, height] as updateGameBounds set them, in
                        \* pixels; the play of the model runs on the scaled
                        \* field gameWidth x gameHeight

\* GameInitializer (js/init.js)
VARIABLES
    initialized,        \* GameInitializer.initialized: component -> flag
    retryAttempts,      \* GameInitializer.retryAttempts (absent counts as 0)
    staggered,          \* how many of the staggered timeouts of
                        \* initializeComponents have fired
    retryTimers,        \* components whose retry timeout is pending
    fallbackTimer,      \* the 5 s timeout of initializeComponents is pending
    missing,            \* components whose class or global is not loaded
    displayCreated,     \* window.display exists
    awaiting,           \* the function suspended at 'await
                        \* window.display.init()', or "none"
    readyHandlers       \* how many times onAllSystemsReady has installed
                        \* the beforeunload, focus and blur handlers

initVars == <<initialized, retryAttempts, staggered, retryTimers,
              fallbackTimer, missing, displayCreated, awaiting,
              readyHandlers>>

initOrder == <<"debug", "display", "input", "game", "screens", "leaderboard">>
Components == {initOrder[i] : i \in DOMAIN initOrder}

\* the initializer after a start in which every component came up in turn
InitializerDone ==
    /\ initialized = [c \in Components |-> TRUE]
    /\ retryAttempts = [c \in Components |-> 0]
    /\ staggered = Len(initOrder)
    /\ retryTimers = {}
    /\ fallbackTimer = FALSE
    /\ missing = {}
    /\ displayCreated = TRUE
    /\ awaiting = "none"
    /\ readyHandlers = 1

\* LeaderboardManager
VARIABLES
    leaderboard,        \* LeaderboardManager.leaderboard: sequence of entries
    storedLeaderboard,  \* localStorage item 'pipelineDefenderLeaderboard':
                        \* the JSON text of an array
    now                 \* Date.now()

leaderboardVars == <<leaderboard, storedLeaderboard, now>>

\* first visit: the constructor has loaded and saved an empty leaderboard
LeaderboardEmpty ==
    /\ leaderboard = <<>>
    /\ storedLeaderboard = <<>>
    /\ now = 1

gameVars == <<gameState, isRunning, isPaused, player, projectiles, bugs, powerUps,
          score, timeLeft, collectedPowerUps, bugStats, nextProjectileId,
          nextBugId, nextPowerUpId, lastGameResult, timerInterval,
          activeTimers, rafPending, currentScreen, isTransitioning,
          pendingShow, startPending, endCalls, atEnd, removedIds,
          staleNotice, displayReport, gameBounds, introTimer,
          gameObjects>>

vars == <<gameVars, initVars, leaderboardVars>>

\* the program state as one record
State ==
    [gameState |-> gameState, isRunning |-> isRunning, isPaused |-> isPaused,
     player |-> player, projectiles |-> projectiles, bugs |-> bugs,
     powerUps |-> powerUps, score |-> score, timeLeft |-> timeLeft,
     collectedPowerUps |-> collectedPowerUps, bugStats |-> bugStats,
     nextProjectileId |-> nextProjectileId, nextBugId |-> nextBugId,
     nextPowerUpId |-> nextPowerUpId, lastGameResult |-> lastGameResult,
     timerInterval |-> timerInterval, activeTimers |-> activeTimers,
     rafPending |-> rafPending, currentScreen |-> currentScreen,
     isTransitioning |-> isTransitioning, pendingShow |-> pendingShow,
     startPending |-> startPending, endCalls |-> endCalls, atEnd |-> atEnd,
     removedIds |-> removedIds, staleNotice |-> staleNotice,
     displayReport |-> displayReport, gameBounds |-> gameBounds,
     introTimer |-> introTimer, gameObjects |-> gameObjects]

\* the next state is the record s
Becomes(s) ==
    /\ gameState' = s.gameState
    /\ isRunning' = s.isRunning
    /\ isPaused' = s.isPaused
    /\ player' = s.player
    /\ projectiles' = s.projectiles
    /\ bugs' = s.bugs
    /\ powerUps' = s.powerUps
    /\ score' = s.score
    /\ timeLeft' = s.timeLeft
    /\ collectedPowerUps' = s.collectedPowerUps
    /\ bugStats' = s.bugStats
    /\ nextProjectileId' = s.nextProjectileId
    /\ nextBugId' = s.nextBugId
    /\ nextPowerUpId' = s.nextPowerUpId
    /\ lastGameResult' = s.lastGameResult
    /\ timerInterval' = s.timerInterval
    /\ activeTimers' = s.activeTimers
    /\ rafPending' = s.rafPending
    /\ currentScreen' = s.currentScreen
    /\ isTransitioning' = s.isTransitioning
    /\ pendingShow' = s.pendingShow
    /\ startPending' = s.startPending
    /\ endCalls' = s.endCalls
    /\ atEnd' = s.atEnd
    /\ removedIds' = s.removedIds
    /\ staleNotice' = s.staleNotice
    /\ displayReport' = s.displayReport
    /\ gameBounds' = s.gameBounds
    /\ introTimer' = s.introTimer
    /\ gameObjects' = s.gameObjects
    /\ UNCHANGED <<initVars, leaderboardVars>>

-----------------------------------------------------------------------------
(* Helpers *)

RemoveAt(seq, i) == SubSeq(seq, 1, i - 1) \o SubSeq(seq, i + 1, Len(seq))

Max(a, b) == IF a > b THEN a ELSE b
Min(a, b) == IF a < b THEN a ELSE b

RECURSIVE SumOver(_, _)
SumOver(f, S) ==
    IF S = {} THEN 0
    ELSE LET k == CHOOSE k \in S : TRUE IN f[k] + SumOver(f, S \ {k})

NoBugStats == [t \in Range(bugTypes) |-> 0]

NoRemovedIds == [projectiles |-> {}, bugs |-> {}, powerUps |-> {}]

\* the session state a snapshot records
Session(s) ==
    [score |-> s.score, bugStats |-> s.bugStats,
     collectedPowerUps |-> s.collectedPowerUps,
     projectiles |-> s.projectiles, bugs |-> s.bugs, powerUps |-> s.powerUps]

-----------------------------------------------------------------------------
(* ScreenManager *)

showScreen(s, screenId) ==
    IF s.isTransitioning THEN s
    ELSE [s EXCEPT !.isTransitioning = TRUE, !.pendingShow = screenId]

\* ScreenManager.endGame(result): fills the game-over screen and shows it
screensEndGame(s) == showScreen(s, "game-over-screen")

isGameActive(s) == s.currentScreen = "game-screen"

-----------------------------------------------------------------------------
(* PipelineDefenderGame *)

\* the DOM element createProjectile, createBug or createPowerUp makes for
\* an entity ('projectile-<id>', 'bug-<id>', 'powerup-<id>')
Element(kind, id) == [kind |-> kind, id |-> id]

\* Map.prototype.set and Map.prototype.delete on the tracking map
MapSet(map, key, element) ==
    {e \in map : e.key # key} \cup {[key |-> key, element |-> element]}

MapDelete(map, key) == {e \in map : e.key # key}

\* window.display.createProjectile(entity), createBug, createPowerUp:
\* gameObjects.set(entity.id, element)
notifyCreated(s, kind, id) ==
    [s EXCEPT !.gameObjects = MapSet(@, id, Element(kind, id))]

\* window.display.removeProjectile(id), removeBug(id), removePowerUp(id):
\* the game tells the display that the entity with this id is gone;
\* the display deletes whatever element the map holds under that id
notifyRemoved(s, kind, id) ==
    [s EXCEPT !.staleNotice = @ \/ id \in s.removedIds[kind],
              !.removedIds[kind] = @ \cup {id},
              !.gameObjects = MapDelete(@, id)]

\* window.display.updateProjectile(entity), updateBug, updatePowerUp
notifyUpdated(s, kind, id) ==
    [s EXCEPT !.staleNotice = @ \/ id \in s.removedIds[kind]]

\* window.display.clearGameObjects()
clearGameObjects(s) ==
    [s EXCEPT !.removedIds = NoRemovedIds, !.gameObjects = {}]

\* updateGameBounds as it would be if it took positive dimensions as they are
updateGameBounds_NoMinimum(report) ==
    IF report.kind = "none"
    THEN [width |-> fallbackGameWidth, height |-> fallbackGameHeight]
    ELSE IF report.kind = "dimensions"
              /\ report.width > 0 /\ report.height > 0
    THEN [width |-> report.width, height |-> report.height]
    ELSE [width |-> fallbackGameWidth, height |-> fallbackGameHeight]

\* updateGameBounds: the play area in pixels.  The display is missing
\* ("none"), throws ("throws"), reports a width or height that is no number
\* ("invalid"), or reports numbers ("dimensions").
updateGameBounds(report) ==
    IF report.kind = "none"
    THEN [width |-> fallbackGameWidth, height |-> fallbackGameHeight]
    ELSE IF report.kind = "dimensions"
              /\ report.width > 0 /\ report.height > 0
    THEN [width |-> Max(report.width, minGameWidth),
          height |-> Max(report.height, minGameHeight)]
    ELSE [width |-> fallbackGameWidth, height |-> fallbackGameHeight]

resetPlayer(s) ==
    [s EXCEPT !.player =
        [x |-> gameWidth \div 2 - playerSize \div 2,
         y |-> gameHeight - playerSize - playerBottomMargin,
         width |-> playerSize,
         height |-> playerSize]]

gameResult(s, success, message) ==
    [success |-> success,
     score |-> s.score,
     timeTaken |-> gameTime - s.timeLeft,
     bugsKilled |-> SumOver(s.bugStats, DOMAIN s.bugStats),
     powerupsCollected |-> Len(s.collectedPowerUps),
     bugStats |-> s.bugStats,
     message |-> message]

endGame(s, success, message) ==
    LET s1 == [s EXCEPT !.isRunning = FALSE, !.gameState = "gameover"]
        s2 == IF s1.timerInterval # 0
              THEN [s1 EXCEPT !.activeTimers = @ \ {s1.timerInterval},
                              !.timerInterval = 0]
              ELSE s1
        s3 == [s2 EXCEPT !.lastGameResult = gameResult(s2, success, message),
                         !.endCalls = @ + 1,
                         !.atEnd = IF @ = NoSnapshot
                                   THEN [taken |-> TRUE, session |-> Session(s2)]
                                   ELSE @]
    IN screensEndGame(s3)

startTimer(s) ==
    LET handle == CHOOSE h \in 1..(Cardinality(s.activeTimers) + 2) :
                      h \notin s.activeTimers /\ h # s.timerInterval
    IN [s EXCEPT !.timerInterval = handle, !.activeTimers = @ \cup {handle}]

startGameLoop(s) ==
    startTimer([s EXCEPT !.rafPending = @ + 1])

\* startNewGame as it would be if it did not clear the countdown interval
startNewGame_KeepsTimer(s) ==
    LET s1 == [s EXCEPT !.isRunning = FALSE]
        s3 == [s1 EXCEPT !.gameBounds = updateGameBounds(s1.displayReport),
                         !.gameState = "playing",
                         !.isRunning = TRUE,
                         !.isPaused = FALSE,
                         !.score = 0,
                         !.timeLeft = gameTime,
                         !.collectedPowerUps = <<>>,
                         !.bugStats = NoBugStats,
                         !.projectiles = <<>>,
                         !.bugs = <<>>,
                         !.powerUps = <<>>,
                         !.nextProjectileId = 1,
                         !.nextBugId = 1,
                         !.nextPowerUpId = 1,
                         !.endCalls = 0,
                         !.atEnd = NoSnapshot]
    IN startGameLoop(clearGameObjects(resetPlayer(s3)))

\* startNewGame as it would be if it kept the id counters
startNewGame_KeepsIds(s) ==
    LET s1 == [s EXCEPT !.isRunning = FALSE]
        s2 == IF s1.timerInterval # 0
              THEN [s1 EXCEPT !.activeTimers = @ \ {s1.timerInterval},
                              !.timerInterval = 0]
              ELSE s1
        s3 == [s2 EXCEPT !.gameBounds = updateGameBounds(s2.displayReport),
                         !.gameState = "playing",
                         !.isRunning = TRUE,
                         !.isPaused = FALSE,
                         !.score = 0,
                         !.timeLeft = gameTime,
                         !.collectedPowerUps = <<>>,
                         !.bugStats = NoBugStats,
                         !.projectiles = <<>>,
                         !.bugs = <<>>,
                         !.powerUps = <<>>,
                         !.endCalls = 0,
                         !.atEnd = NoSnapshot]
    IN startGameLoop(clearGameObjects(resetPlayer(s3)))

startNewGame(s) ==
    LET s1 == [s EXCEPT !.isRunning = FALSE]
        s2 == IF s1.timerInterval # 0
              THEN [s1 EXCEPT !.activeTimers = @ \ {s1.timerInterval},
                              !.timerInterval = 0]
              ELSE s1
        s3 == [s2 EXCEPT !.gameBounds = updateGameBounds(s2.displayReport),
                         !.gameState = "playing",
                         !.isRunning = TRUE,
                         !.isPaused = FALSE,
                         !.score = 0,
                         !.timeLeft = gameTime,
                         !.collectedPowerUps = <<>>,
                         !.bugStats = NoBugStats,
                         !.projectiles = <<>>,
                         !.bugs = <<>>,
                         !.powerUps = <<>>,
                         !.nextProjectileId = 1,
                         !.nextBugId = 1,
                         !.nextPowerUpId = 1,
                         !.endCalls = 0,
                         !.atEnd = NoSnapshot]
    IN startGameLoop(clearGameObjects(resetPlayer(s3)))

\* the countdown callback as it would be in a survival game: running out
\* of time is the win
timerCallback_Survival(s) ==
    IF ~s.isPaused /\ s.isRunning
    THEN LET s1 == [s EXCEPT !.timeLeft = @ - 1]
         IN IF s1.timeLeft <= 0
            THEN endGame(s1, TRUE, "Time up! Mission failed.")
            ELSE s1
    ELSE s

\* the countdown callback as it would be without the pause check
timerCallback_IgnoresPause(s) ==
    IF s.isRunning
    THEN LET s1 == [s EXCEPT !.timeLeft = @ - 1]
         IN IF s1.timeLeft <= 0
            THEN endGame(s1, FALSE, "Time up! Mission failed.")
            ELSE s1
    ELSE s

\* the countdown callback as it would be if it ended the session one
\* second late
timerCallback_EndsBelowZero(s) ==
    IF ~s.isPaused /\ s.isRunning
    THEN LET s1 == [s EXCEPT !.timeLeft = @ - 1]
         IN IF s1.timeLeft < 0
            THEN endGame(s1, FALSE, "Time up! Mission failed.")
            ELSE s1
    ELSE s

\* the countdown callback as it would be if the countdown stopped at 0
\* without ending the session
timerCallback_StopsAtZero(s) ==
    IF ~s.isPaused /\ s.isRunning /\ s.timeLeft > 0
    THEN [s EXCEPT !.timeLeft = @ - 1]
    ELSE s

\* the callback of startTimer's setInterval
timerCallback(s) ==
    IF ~s.isPaused /\ s.isRunning
    THEN LET s1 == [s EXCEPT !.timeLeft = @ - 1]
         IN IF s1.timeLeft <= 0
            THEN endGame(s1, FALSE, "Time up! Mission failed.")
            ELSE s1
    ELSE s

\* handleInput and updatePlayer: the velocity is set from the sampled
\* direction and used at once
updatePlayer(s, direction) ==
    LET velocity == direction * playerSpeed
        x1 == s.player.x + velocity
    IN [s EXCEPT !.player.x = Max(0, Min(gameWidth - s.player.width, x1))]

RECURSIVE updateProjectilesFrom(_, _)
updateProjectilesFrom(s, i) ==
    IF i < 1 THEN s
    ELSE LET moved == [s.projectiles[i] EXCEPT !.y = @ - projectileSpeed]
         IN IF moved.y < -moved.height
            THEN updateProjectilesFrom(
                     [notifyRemoved(s, "projectiles", moved.id)
                         EXCEPT !.projectiles = RemoveAt(@, i)], i - 1)
            ELSE updateProjectilesFrom(
                     notifyUpdated([s EXCEPT !.projectiles[i] = moved],
                                   "projectiles", moved.id), i - 1)

updateProjectiles(s) == updateProjectilesFrom(s, Len(s.projectiles))

RECURSIVE updateBugsFrom(_, _)
updateBugsFrom(s, i) ==
    IF i < 1 THEN s
    ELSE LET moved == [s.bugs[i] EXCEPT !.y = @ + bugSpeed]
             s1 == [s EXCEPT !.bugs[i] = moved]
         IN IF moved.y + moved.height >= gameHeight - bottomBuffer
            THEN endGame(s1, FALSE, "A bug breached the pipeline! Mission failed.")
            ELSE IF moved.y > gameHeight
            THEN updateBugsFrom(
                     [notifyRemoved(s1, "bugs", moved.id)
                         EXCEPT !.bugs = RemoveAt(@, i)], i - 1)
            ELSE updateBugsFrom(notifyUpdated(s1, "bugs", moved.id), i - 1)

updateBugs(s) == updateBugsFrom(s, Len(s.bugs))

RECURSIVE updatePowerUpsFrom(_, _)
updatePowerUpsFrom(s, i) ==
    IF i < 1 THEN s
    ELSE LET moved == [s.powerUps[i] EXCEPT !.y = @ + powerUpSpeed]
         IN IF moved.y > gameHeight
            THEN updatePowerUpsFrom(
                     [notifyRemoved(s, "powerUps", moved.id)
                         EXCEPT !.powerUps = RemoveAt(@, i)], i - 1)
            ELSE updatePowerUpsFrom(
                     notifyUpdated([s EXCEPT !.powerUps[i] = moved],
                                   "powerUps", moved.id), i - 1)

updatePowerUps(s) == updatePowerUpsFrom(s, Len(s.powerUps))

\* availableBugTypes as it would be without the filter on collected types
availableBugTypes_All(s) == bugTypes

\* the types spawnBug may choose from, in bugTypes order
availableBugTypes(s) ==
    SelectSeq(bugTypes,
              LAMBDA t : bugToPowerUpMap[t] \notin Range(s.collectedPowerUps))

\* spawnBug as it would be if it numbered a bug by its place in the list
spawnBug_IdFromLength(s, pick, x) ==
    LET available == availableBugTypes(s)
    IN IF Len(available) = 0 THEN s
       ELSE LET bug == [id |-> Len(s.bugs) + 1,
                        x |-> x,
                        y |-> -bugSize,
                        width |-> bugSize,
                        height |-> bugSize,
                        type |-> available[pick]]
            IN notifyCreated([s EXCEPT !.nextBugId = @ + 1,
                                       !.bugs = Append(@, bug)],
                             "bugs", bug.id)

\* pick stands for Math.floor(Math.random() * length) + 1, x for the
\* random horizontal offset
spawnBug(s, pick, x) ==
    LET available == availableBugTypes(s)
    IN IF Len(available) = 0 THEN s
       ELSE LET bug == [id |-> s.nextBugId,
                        x |-> x,
                        y |-> -bugSize,
                        width |-> bugSize,
                        height |-> bugSize,
                        type |-> available[pick]]
            IN notifyCreated([s EXCEPT !.nextBugId = @ + 1,
                                       !.bugs = Append(@, bug)],
                             "bugs", bug.id)

\* availablePowerUps as it would be without the filter on collected types
availablePowerUps_All(s) == powerUpTypes

\* the types spawnPowerUp may choose from, in powerUpTypes order
availablePowerUps(s) ==
    SelectSeq(powerUpTypes, LAMBDA t : t \notin Range(s.collectedPowerUps))

spawnPowerUp(s, pick, x) ==
    LET available == availablePowerUps(s)
    IN IF Len(available) = 0 THEN s
       ELSE LET powerUp == [id |-> s.nextPowerUpId,
                            x |-> x,
                            y |-> -powerUpSize,
                            width |-> powerUpSize,
                            height |-> powerUpSize,
                            type |-> available[pick]]
            IN notifyCreated([s EXCEPT !.nextPowerUpId = @ + 1,
                                       !.powerUps = Append(@, powerUp)],
                             "powerUps", powerUp.id)

\* in: the random draws of one frame
spawnObjects(s, in) ==
    LET s1 == IF in.spawnBug THEN spawnBug(s, in.bugPick, in.bugX) ELSE s
    IN IF in.spawnPowerUp THEN spawnPowerUp(s1, in.powerUpPick, in.powerUpX)
       ELSE s1

isColliding(projectile, target) ==
    /\ projectile.x < target.x + target.width
    /\ projectile.x + projectile.width > target.x
    /\ projectile.y < target.y + target.height
    /\ projectile.y + projectile.height > target.y

\* removeProjectile, removeBug and removePowerUp read the id of
\* entities[index] for the display before the splice: with an index outside
\* the collection the entity is undefined and the read throws a TypeError
removalThrows(entities, index) == index \notin DOMAIN entities

\* removeProjectile as it would be if it did not tell the display
removeProjectile_Silent(s, index) ==
    [s EXCEPT !.projectiles = RemoveAt(@, index)]

removeProjectile(s, index) ==
    [notifyRemoved(s, "projectiles", s.projectiles[index].id)
        EXCEPT !.projectiles = RemoveAt(@, index)]

\* removeBug as it would be if it forgot the splice
removeBug_KeepsBug(s, index) == s

removeBug(s, index) ==
    [notifyRemoved(s, "bugs", s.bugs[index].id)
        EXCEPT !.bugs = RemoveAt(@, index)]

removePowerUp(s, index) ==
    [notifyRemoved(s, "powerUps", s.powerUps[index].id)
        EXCEPT !.powerUps = RemoveAt(@, index)]

\* addScore as it would be if it counted the points twice
addScore_Twice(s, points) == [s EXCEPT !.score = @ + points + points]

\* addScore as it would be with an assignment in place of the addition
addScore_Overwrites(s, points) == [s EXCEPT !.score = points]

addScore(s, points) == [s EXCEPT !.score = @ + points]

\* the elimination loop as it would be if it stopped at the first match
RECURSIVE removeBugsOfType_FirstOnly(_, _, _)
removeBugsOfType_FirstOnly(s, type, i) ==
    IF i < 1 THEN s
    ELSE IF s.bugs[i].type = type
         THEN removeBug(s, i)
         ELSE removeBugsOfType_FirstOnly(s, type, i - 1)

RECURSIVE removeBugsOfType(_, _, _)
removeBugsOfType(s, type, i) ==
    IF i < 1 THEN s
    ELSE IF s.bugs[i].type = type
         THEN removeBugsOfType(removeBug(s, i), type, i - 1)
         ELSE removeBugsOfType(s, type, i - 1)

\* collectPowerUp as it would be if the pipeline were only complete with a
\* fifth collection
collectPowerUp_LateWin(s, powerUp) ==
    LET s1 == [s EXCEPT !.collectedPowerUps = Append(@, powerUp.type)]
        s2 == addScore(s1, powerUpScore)
        keys == {t \in Range(bugTypes) : bugToPowerUpMap[t] = powerUp.type}
        s3 == IF keys # {}
              THEN removeBugsOfType(s2, CHOOSE t \in keys : TRUE, Len(s2.bugs))
              ELSE s2
    IN IF Len(s3.collectedPowerUps) = pipelineLength + 1
       THEN endGame(s3, TRUE, "Pipeline secured! Mission complete!")
       ELSE s3

collectPowerUp(s, powerUp) ==
    LET s1 == [s EXCEPT !.collectedPowerUps = Append(@, powerUp.type)]
        s2 == addScore(s1, powerUpScore)
        keys == {t \in Range(bugTypes) : bugToPowerUpMap[t] = powerUp.type}
        s3 == IF keys # {}
              THEN removeBugsOfType(s2, CHOOSE t \in keys : TRUE, Len(s2.bugs))
              ELSE s2
    IN IF Len(s3.collectedPowerUps) = pipelineLength
       THEN endGame(s3, TRUE, "Pipeline secured! Mission complete!")
       ELSE s3

\* the inner loops of checkCollisions: the index of the first target, from
\* index j downwards, that the projectile collides with, or 0
RECURSIVE firstHit(_, _, _)
firstHit(projectile, targets, j) ==
    IF j < 1 THEN 0
    ELSE IF isColliding(projectile, targets[j]) THEN j
         ELSE firstHit(projectile, targets, j - 1)

\* the outer loop as it would be if a projectile that hit a bug went on to
\* the power-ups
RECURSIVE checkCollisionsFrom_HitsBoth(_, _, _)
checkCollisionsFrom_HitsBoth(s, i, lo) ==
    IF i < lo THEN s
    ELSE LET projectile == s.projectiles[i]
             jb == firstHit(projectile, s.bugs, Len(s.bugs))
             jp == firstHit(projectile, s.powerUps, Len(s.powerUps))
             s1 == IF jb > 0
                   THEN LET bug == s.bugs[jb]
                        IN [addScore(removeBug(removeProjectile(s, i), jb),
                                     killScore)
                               EXCEPT !.bugStats[bug.type] = @ + 1]
                   ELSE s
             s2 == IF jp > 0
                   THEN collectPowerUp(
                            removePowerUp(
                                IF jb > 0 THEN s1 ELSE removeProjectile(s1, i),
                                jp),
                            s.powerUps[jp])
                   ELSE s1
         IN checkCollisionsFrom_HitsBoth(s2, i - 1, lo)

\* the outer loop of checkCollisions for the projectiles i down to lo
RECURSIVE checkCollisionsFrom(_, _, _)
checkCollisionsFrom(s, i, lo) ==
    IF i < lo THEN s
    ELSE LET projectile == s.projectiles[i]
             jb == firstHit(projectile, s.bugs, Len(s.bugs))
             jp == firstHit(projectile, s.powerUps, Len(s.powerUps))
         IN IF jb > 0
            THEN LET bug == s.bugs[jb]
                     s1 == removeBug(removeProjectile(s, i), jb)
                     s2 == addScore(s1, killScore)
                     s3 == [s2 EXCEPT !.bugStats[bug.type] = @ + 1]
                 IN checkCollisionsFrom(s3, i - 1, lo)
            ELSE IF jp > 0
            THEN LET powerUp == s.powerUps[jp]
                     s1 == removePowerUp(removeProjectile(s, i), jp)
                 IN checkCollisionsFrom(collectPowerUp(s1, powerUp), i - 1, lo)
            ELSE checkCollisionsFrom(s, i - 1, lo)

checkCollisions(s) == checkCollisionsFrom(s, Len(s.projectiles), 1)

\* update up to, and not including, checkCollisions
moveAndSpawn(s, in) ==
    spawnObjects(
        updatePowerUps(updateBugs(updateProjectiles(
            updatePlayer(s, in.direction)))),
        in)

\* update as it would be if the collisions were resolved before the moves
update_CollideFirst(s, in) == moveAndSpawn(checkCollisions(s), in)

update(s, in) == checkCollisions(moveAndSpawn(s, in))

\* the frame callback as it would be without the isRunning check
gameLoop_NoRunningCheck(s, in) ==
    LET s1 == IF ~s.isPaused THEN update(s, in) ELSE s
    IN IF s1.isRunning THEN [s1 EXCEPT !.rafPending = @ + 1] ELSE s1

\* the frame callback as it would be without the isPaused check
gameLoop_IgnoresPause(s, in) ==
    IF ~s.isRunning THEN s
    ELSE LET s1 == update(s, in)
         IN IF s1.isRunning THEN [s1 EXCEPT !.rafPending = @ + 1] ELSE s1

\* one run of the frame callback (the caller has taken it off the pending
\* requests)
gameLoop(s, in) ==
    IF ~s.isRunning THEN s
    ELSE LET s1 == IF ~s.isPaused THEN update(s, in) ELSE s
         IN IF s1.isRunning THEN [s1 EXCEPT !.rafPending = @ + 1] ELSE s1

\* update as far as it gets when one of its calls throws: steps is the
\* number of its calls that have returned (0: handleInput or updatePlayer
\* throws ... 6: updateDisplay, or render after update, throws)
updateUntilThrow(s, in, steps) ==
    LET s1 == updatePlayer(s, in.direction)
        s2 == updateProjectiles(s1)
        s3 == updateBugs(s2)
        s4 == updatePowerUps(s3)
        s5 == spawnObjects(s4, in)
        s6 == checkCollisions(s5)
    IN CASE steps = 0 -> s
         [] steps = 1 -> s1
         [] steps = 2 -> s2
         [] steps = 3 -> s3
         [] steps = 4 -> s4
         [] steps = 5 -> s5
         [] OTHER -> s6

\* the frame callback as it would be if the catch only logged the error
gameLoopThrows_KeepsRunning(s, in, steps) ==
    IF ~s.isRunning THEN s
    ELSE IF s.isPaused THEN [s EXCEPT !.rafPending = @ + 1]
    ELSE LET s1 == updateUntilThrow(s, in, steps)
         IN IF s1.isRunning THEN [s1 EXCEPT !.rafPending = @ + 1] ELSE s1

\* one run of the frame callback in which update or render throws: the
\* catch ends the session and returns
gameLoopThrows(s, in, steps) ==
    IF ~s.isRunning THEN s
    ELSE IF s.isPaused THEN [s EXCEPT !.rafPending = @ + 1]
    ELSE endGame(updateUntilThrow(s, in, steps), FALSE, "Game error occurred")

\* shoot as it would be without the pause check
shoot_WhilePaused(s) ==
    IF ~s.isRunning THEN s
    ELSE LET projectile ==
                 [id |-> s.nextProjectileId,
                  x |-> s.player.x + s.player.width \div 2 - projectileSize \div 2,
                  y |-> s.player.y - projectileStartOffset,
                  width |-> projectileSize,
                  height |-> projectileHeight]
         IN notifyCreated([s EXCEPT !.nextProjectileId = @ + 1,
                                    !.projectiles = Append(@, projectile)],
                          "projectiles", projectile.id)

shoot(s) ==
    IF ~s.isRunning \/ s.isPaused THEN s
    ELSE LET projectile ==
                 [id |-> s.nextProjectileId,
                  x |-> s.player.x + s.player.width \div 2 - projectileSize \div 2,
                  y |-> s.player.y - projectileStartOffset,
                  width |-> projectileSize,
                  height |-> projectileHeight]
         IN notifyCreated([s EXCEPT !.nextProjectileId = @ + 1,
                                    !.projectiles = Append(@, projectile)],
                          "projectiles", projectile.id)

\* movePlayer as it would be without the clamp
movePlayer_NoClamp(s, deltaX) == [s EXCEPT !.player.x = @ + deltaX]

movePlayer(s, deltaX) ==
    [s EXCEPT !.player.x =
        Max(0, Min(gameWidth - s.player.width, s.player.x + deltaX))]

pauseGame(s) == [s EXCEPT !.isPaused = TRUE]

resumeGame(s) == [s EXCEPT !.isPaused = FALSE]

togglePause(s) == IF s.isPaused THEN resumeGame(s) ELSE pauseGame(s)

autoPause(s) == IF s.isRunning /\ ~s.isPaused THEN pauseGame(s) ELSE s

\* destroy: the interval is cleared and its handle kept
destroy(s) ==
    LET s1 == [s EXCEPT !.isRunning = FALSE]
        s2 == IF s1.timerInterval # 0
              THEN [s1 EXCEPT !.activeTimers = @ \ {s1.timerInterval}]
              ELSE s1
    IN clearGameObjects(s2)

-----------------------------------------------------------------------------
(* ScreenManager, continued *)

startGame(s) == [showScreen(s, "game-screen") EXCEPT !.startPending = TRUE]

handleEscapeNavigation(s) ==
    CASE s.currentScreen = "game-screen" ->
             showScreen(endGame(s, FALSE, "Game cancelled"), "menu-screen")
      [] s.currentScreen \in {"instructions-screen", "leaderboard-screen",
                              "game-over-screen"} ->
             showScreen(s, "menu-screen")
      [] OTHER -> s

handleGlobalKeyNavigation(s) ==
    IF s.isTransitioning \/ s.currentScreen = NoScreen THEN s
    ELSE handleEscapeNavigation(s)

\* InputHandler.handleKeyDown for the Escape key
inputEscape(s) == IF isGameActive(s) THEN togglePause(s) ELSE s

-----------------------------------------------------------------------------
(* The environment *)

\* Math.random() * range lies in [0, range): its whole values
RandomBelow(range) == {0} \cup 1..(range - 1)
BugXs == RandomBelow(gameWidth - bugSize)
PowerUpXs == RandomBelow(gameWidth - powerUpSize)
DeltaXs == {-1, 1}

\* What the environment may do in an exploration: how many projectiles,
\* bugs and power-ups a session creates, which of the available types a
\* random draw may pick, and which movement keys are held.
World ==
    [projectiles |-> MaxProjectiles, bugs |-> MaxBugs, powerUps |-> MaxPowerUps,
     bugPicks |-> MaxPick, powerUpPicks |-> MaxPick, directions |-> {-1, 0, 1}]

\* The environment of the pipeline explorations: enough power-ups and
\* projectiles to complete the pipeline; the player stands still and a
\* power-up is of the first available type.
Pipeline ==
    [projectiles |-> PipelineProjectiles, bugs |-> PipelineBugs,
     powerUps |-> PipelinePowerUps, bugPicks |-> MaxPick, powerUpPicks |-> 1,
     directions |-> {0}]

\* the draws a frame can make in state s, within the environment env
FrameInputs(s, env) ==
    LET bugChoices ==
            {[spawnBug |-> FALSE, bugPick |-> 1, bugX |-> 0]} \cup
            (IF s.nextBugId <= env.bugs
             THEN {[spawnBug |-> TRUE, bugPick |-> p, bugX |-> x] :
                      p \in 1..Min(env.bugPicks, Len(availableBugTypes(s))),
                      x \in BugXs}
             ELSE {})
        powerUpChoices ==
            {[spawnPowerUp |-> FALSE, powerUpPick |-> 1, powerUpX |-> 0]} \cup
            (IF s.nextPowerUpId <= env.powerUps
             THEN {[spawnPowerUp |-> TRUE, powerUpPick |-> p, powerUpX |-> x] :
                      p \in 1..Min(env.powerUpPicks, Len(availablePowerUps(s))),
                      x \in PowerUpXs}
             ELSE {})
    IN {[direction |-> d, spawnBug |-> b.spawnBug, bugPick |-> b.bugPick,
         bugX |-> b.bugX, spawnPowerUp |-> p.spawnPowerUp,
         powerUpPick |-> p.powerUpPick, powerUpX |-> p.powerUpX] :
            d \in env.directions, b \in bugChoices, p \in powerUpChoices}

-----------------------------------------------------------------------------
(* Initial state: the game as its constructor leaves it, the menu shown *)

InitGame ==
    /\ gameState = "menu"
    /\ isRunning = FALSE
    /\ isPaused = FALSE
    /\ player = [x |-> gameWidth \div 2 - playerSize \div 2,
                 y |-> gameHeight - playerSize - playerBottomMargin,
                 width |-> playerSize, height |-> playerSize]
    /\ projectiles = <<>>
    /\ bugs = <<>>
    /\ powerUps = <<>>
    /\ score = 0
    /\ timeLeft = gameTime
    /\ collectedPowerUps = <<>>
    /\ bugStats = NoBugStats
    /\ nextProjectileId = 1
    /\ nextBugId = 1
    /\ nextPowerUpId = 1
    /\ lastGameResult = NoResult
    /\ timerInterval = 0
    /\ activeTimers = {}
    /\ rafPending = 0
    /\ currentScreen = "menu-screen"
    /\ isTransitioning = FALSE
    /\ pendingShow = NoScreen
    /\ startPending = FALSE
    /\ endCalls = 0
    /\ atEnd = NoSnapshot
    /\ removedIds = NoRemovedIds
    /\ staleNotice = FALSE
    /\ gameObjects = {}
    /\ gameBounds = updateGameBounds(displayReport)

\* the display of a desktop page; the intro has played to its end
Init ==
    /\ displayReport = [kind |-> "dimensions", width |-> 800, height |-> 600]
    /\ InitGame
    /\ introTimer = FALSE
    /\ InitializerDone
    /\ LeaderboardEmpty

-----------------------------------------------------------------------------
(* Actions.  The explorations follow the first session after the page has  *)
(* loaded, from the menu to the game-over screen; the user presses Escape  *)
(* on a settled instructions or game screen and touches the play area      *)
(* while the game runs.                                                    *)

\* the click on 'start new game' of the menu screen
ClickStartNewGame ==
    /\ currentScreen = "menu-screen" /\ ~isTransitioning
    /\ gameState = "menu"
    /\ Becomes(showScreen(State, "instructions-screen"))

\* the click on 'start' of the instructions screen
ClickStartFromInstructions ==
    /\ currentScreen = "instructions-screen" /\ ~isTransitioning
    /\ gameState = "menu" /\ ~startPending
    /\ Becomes(startGame(State))

\* showScreen's timeout (300 ms).  A showScreen called after startGame has
\* set its timeout of 400 ms ends after that timeout.
ShowScreenTimeout ==
    /\ pendingShow # NoScreen
    /\ ~(startPending /\ pendingShow # "game-screen")
    /\ Becomes([State EXCEPT !.currentScreen = pendingShow,
                             !.isTransitioning = FALSE,
                             !.pendingShow = NoScreen])

\* startGame's timeout (400 ms): it was set together with the showScreen
\* timeout for the game screen and runs after it
StartGameTimeout ==
    /\ startPending
    /\ pendingShow # "game-screen"
    /\ Becomes(startNewGame([State EXCEPT !.startPending = FALSE]))

\* the Escape key: both keydown listeners run
KeyEscape ==
    /\ currentScreen \in {"instructions-screen", "game-screen"}
    /\ ~isTransitioning /\ ~startPending
    /\ Becomes(handleGlobalKeyNavigation(inputEscape(State)))

\* the window loses focus: InputHandler.handleWindowBlur and init.js
WindowBlur ==
    /\ isRunning
    /\ Becomes(autoPause(State))

\* the space bar, a click or a tap: tryShoot
KeyShoot(env) ==
    /\ isGameActive(State)
    /\ nextProjectileId <= env.projectiles
    /\ Becomes(shoot(State))

\* a touch move: handleTouchMove
TouchMove ==
    /\ isGameActive(State)
    /\ isRunning
    /\ \E deltaX \in DeltaXs : Becomes(movePlayer(State, deltaX))

\* the browser runs one requested frame callback
GameLoop(env) ==
    /\ rafPending > 0
    /\ \E in \in FrameInputs(State, env) :
          Becomes(gameLoop([State EXCEPT !.rafPending = @ - 1], in))

\* the browser fires the countdown interval
TimerTick ==
    /\ activeTimers # {}
    /\ Becomes(timerCallback(State))

Next ==
    \/ ClickStartNewGame
    \/ ClickStartFromInstructions
    \/ ShowScreenTimeout
    \/ StartGameTimeout
    \/ KeyEscape
    \/ WindowBlur
    \/ KeyShoot(World)
    \/ TouchMove
    \/ GameLoop(World)
    \/ TimerTick

Spec == Init /\ [][Next]_vars

NextPipeline ==
    \/ ClickStartNewGame
    \/ ClickStartFromInstructions
    \/ ShowScreenTimeout
    \/ StartGameTimeout
    \/ KeyEscape
    \/ KeyShoot(Pipeline)
    \/ GameLoop(Pipeline)
    \/ TimerTick

SpecPipeline == Init /\ [][NextPipeline]_vars


-----------------------------------------------------------------------------
(* Properties of the win and loss conditions (SpecPipeline) *)

Collected == Range(collectedPowerUps)
AllPowerUpTypes == Range(powerUpTypes)
Breached(bug) == bug.y + bug.height >= gameHeight - bottomBuffer

\* C1: the session ends with success only if the set of collected power-up
\* types is all four types; a type collected again does not advance the
\* pipeline.
C1_SuccessOnlyWithAllFourTypes ==
    (gameState = "gameover" /\ lastGameResult.success)
        => Collected = AllPowerUpTypes

\* C2: once all four distinct types are collected, the session has ended
\* with success by the end of the same tick.
C2_AllFourTypesEndInSuccess ==
    Collected = AllPowerUpTypes
        => /\ gameState = "gameover"
           /\ ~isRunning
           /\ lastGameResult.success
           /\ lastGameResult.powerupsCollected >= pipelineLength

\* the pipeline was completed with four collections of four types
C2_PipelineCompleted ==
    /\ Collected = AllPowerUpTypes
    /\ Len(collectedPowerUps) = pipelineLength

\* C3: a tick in which a bug reaches the breach threshold ends the session
\* as a loss: the result summary reports success = false.
C3_BreachEndsInLoss ==
    (\E i \in 1..Len(bugs) : Breached(bugs[i]))
        => /\ gameState = "gameover"
           /\ ~isRunning
           /\ ~lastGameResult.success


-----------------------------------------------------------------------------
(* Properties of the countdown, the end of the session and the pause (Spec) *)

TimeUpMessage == "Time up! Mission failed."

\* C4: when the countdown reaches 0 with the pipeline incomplete, the
\* session has ended with success = false.
C4_TimeUpEndsInFailure ==
    (timeLeft <= 0 /\ Collected # AllPowerUpTypes)
        => /\ gameState = "gameover"
           /\ ~isRunning
           /\ ~lastGameResult.success
           /\ lastGameResult.message = TimeUpMessage

\* the countdown ran out on a partly completed pipeline
C4_TimeUp ==
    /\ timeLeft = 0
    /\ gameState = "gameover"
    /\ Cardinality(Collected) = pipelineLength - 1

\* C5: the countdown starts at gameTime; only a countdown callback of a
\* running, unpaused session changes it, by exactly one; it never passes 0,
\* and reaching 0 ends the session with exactly one notification.
C5_CountdownStep ==
    [][/\ StartGameTimeout => timeLeft' = gameTime
       /\ (TimerTick /\ isRunning /\ ~isPaused) => timeLeft' = timeLeft - 1
       /\ (timeLeft' # timeLeft /\ ~StartGameTimeout)
              => /\ TimerTick /\ isRunning /\ ~isPaused
                 /\ timeLeft' = timeLeft - 1
       /\ timeLeft' >= 0
       /\ (timeLeft' = 0 /\ timeLeft # 0)
              => /\ gameState' = "gameover"
                 /\ endCalls = 0 /\ endCalls' = 1
       /\ timeLeft = 0 => endCalls' = endCalls
      ]_vars

\* the countdown went from gameTime to 0 and ended the session once
C5_CountedDown ==
    /\ timeLeft = 0
    /\ lastGameResult.timeTaken = gameTime
    /\ endCalls = 1

\* C6: after the session has ended, no later step of that tick or of any
\* later callback changes the score, the counters, the collected set or
\* the entity collections.
C6_SessionFrozenAfterEnd ==
    atEnd.taken => Session(State) = atEnd.session

\* C7: after the session has ended, a frame callback or a countdown
\* callback changes nothing and requests no further frame.
C7_LateCallbacksAreNoOps ==
    gameState = "gameover"
        => /\ \A in \in FrameInputs(State, World) : gameLoop(State, in) = State
           /\ timerCallback(State) = State

\* the frame requested before the countdown ended the session has run
C7_LateFrameRan ==
    /\ gameState = "gameover"
    /\ lastGameResult.message = TimeUpMessage
    /\ rafPending = 0

\* C8: while the session is paused, a frame callback only requests the
\* next frame and a countdown callback changes nothing; pausing changes
\* nothing but the pause flag.
C8_PauseFreezesCallbacks ==
    /\ (isRunning /\ isPaused)
          => /\ \A in \in FrameInputs(State, World) :
                    gameLoop(State, in) = [State EXCEPT !.rafPending = @ + 1]
             /\ timerCallback(State) = State
    /\ (isRunning /\ ~isPaused)
          => /\ autoPause(State) = [State EXCEPT !.isPaused = TRUE]
             /\ togglePause(State) = [State EXCEPT !.isPaused = TRUE]

\* the session is paused with entities in flight and a second left
C8_PausedInFlight ==
    /\ isRunning /\ isPaused
    /\ projectiles # <<>> /\ bugs # <<>> /\ powerUps # <<>>
    /\ timeLeft = 1

\* C9: whatever happens while the session stays paused, the entity
\* positions, the score, the countdown, the counters and the collected set
\* are unchanged.
C9_NothingMovesWhilePaused ==
    [][(isRunning /\ isPaused /\ isRunning' /\ isPaused')
          => UNCHANGED <<player, projectiles, bugs, powerUps, score, timeLeft,
                         bugStats, collectedPowerUps>>]_vars


-----------------------------------------------------------------------------
(* Properties of the collision resolution (Spec) *)

Ids(entities) == {entities[k].id : k \in DOMAIN entities}

\* the bounding boxes share a cell of the field
Overlap(a, b) ==
    /\ \E px \in a.x..(a.x + a.width - 1) : px \in b.x..(b.x + b.width - 1)
    /\ \E py \in a.y..(a.y + a.height - 1) : py \in b.y..(b.y + b.height - 1)

\* C10, as the specification states it: every projectile and bug whose
\* boxes overlap when the collisions of a tick are resolved are both gone
\* after the tick, with 10 more points and one more kill of the bug's type.
C10_EveryOverlappingPairIsDestroyed ==
    (isRunning /\ ~isPaused)
        => \A in \in FrameInputs(State, World) :
              LET mid == moveAndSpawn(State, in)
                  post == checkCollisions(mid)
              IN \A i \in 1..Len(mid.projectiles), j \in 1..Len(mid.bugs) :
                    Overlap(mid.projectiles[i], mid.bugs[j])
                        => /\ mid.projectiles[i].id \notin Ids(post.projectiles)
                           /\ mid.bugs[j].id \notin Ids(post.bugs)
                           /\ post.score >= mid.score + killScore
                           /\ post.bugStats[mid.bugs[j].type]
                                 >= mid.bugStats[mid.bugs[j].type] + 1

\* C10, amended: a projectile that overlaps a bug still present when the
\* projectile's turn comes in the resolution is removed together with the
\* last such bug of the collection, and with nothing else; that kill adds
\* exactly 10 to the score and exactly 1 to the kill counter of the bug's
\* type, and both are gone after the tick.
C10_HitDestroysProjectileAndBug ==
    (isRunning /\ ~isPaused)
        => \A in \in FrameInputs(State, World) :
              LET mid == moveAndSpawn(State, in)
                  n == Len(mid.projectiles)
                  post == checkCollisions(mid)
              IN \A i \in 1..n :
                    LET before == checkCollisionsFrom(mid, n, i + 1)
                        after == checkCollisionsFrom(before, i, i)
                        p == mid.projectiles[i]
                        hit == {j \in 1..Len(before.bugs) :
                                   Overlap(p, before.bugs[j])}
                    IN hit # {}
                        => LET j == CHOOSE j \in hit : \A k \in hit : k <= j
                               b == before.bugs[j]
                           IN /\ before.projectiles[i] = p
                              /\ after.projectiles = RemoveAt(before.projectiles, i)
                              /\ after.bugs = RemoveAt(before.bugs, j)
                              /\ after.score = before.score + killScore
                              /\ after.bugStats =
                                    [before.bugStats EXCEPT ![b.type] = @ + 1]
                              /\ after.powerUps = before.powerUps
                              /\ after.collectedPowerUps = before.collectedPowerUps
                              /\ p.id \notin Ids(post.projectiles)
                              /\ b.id \notin Ids(post.bugs)

\* a bug has been shot
C10_BugKilled ==
    /\ SumOver(bugStats, DOMAIN bugStats) = 1
    /\ score = killScore
    /\ bugs = <<>>


-----------------------------------------------------------------------------
(* Properties of hits, power-up effects and the player's range *)

Kills(s) == SumOver(s.bugStats, DOMAIN s.bugStats)

\* C11: in the collision resolution of a tick each projectile hits at most
\* one target: it kills one bug, or collects one power-up, or hits nothing;
\* it is removed exactly when it hits; a kill removes one bug and no
\* power-up; the projectiles removed in the tick are as many as the kills
\* and collections together.
C11_OneTargetPerProjectile ==
    (isRunning /\ ~isPaused)
        => \A in \in FrameInputs(State, World) :
              LET mid == moveAndSpawn(State, in)
                  n == Len(mid.projectiles)
                  post == checkCollisions(mid)
              IN /\ \A i \in 1..n :
                       LET before == checkCollisionsFrom(mid, n, i + 1)
                           after == checkCollisionsFrom(before, i, i)
                           kills == Kills(after) - Kills(before)
                           collections == Len(after.collectedPowerUps)
                                            - Len(before.collectedPowerUps)
                           goneBugs == Len(before.bugs) - Len(after.bugs)
                           gonePowerUps == Len(before.powerUps) - Len(after.powerUps)
                       IN /\ kills \in {0, 1} /\ collections \in {0, 1}
                          /\ kills + collections <= 1
                          /\ Len(before.projectiles) - Len(after.projectiles)
                                = kills + collections
                          /\ kills + collections = 1
                                => Ids(after.projectiles)
                                     = Ids(before.projectiles) \ {mid.projectiles[i].id}
                          /\ kills = 1 => (goneBugs = 1 /\ gonePowerUps = 0)
                          /\ collections = 1 => gonePowerUps = 1
                          /\ kills + collections = 0 => after = before
                 /\ n - Len(post.projectiles)
                       = (Kills(post) - Kills(mid))
                           + (Len(post.collectedPowerUps) - Len(mid.collectedPowerUps))
                 /\ Ids(post.bugs) \subseteq Ids(mid.bugs)
                 /\ Ids(post.powerUps) \subseteq Ids(mid.powerUps)

\* a tick is about to resolve a projectile that overlaps a bug and a
\* power-up at once
C11_BugAndPowerUpOverlapped ==
    /\ isRunning /\ ~isPaused
    /\ \E in \in FrameInputs(State, World) :
          LET mid == moveAndSpawn(State, in)
          IN \E i \in DOMAIN mid.projectiles, j \in DOMAIN mid.bugs,
                k \in DOMAIN mid.powerUps :
                /\ Overlap(mid.projectiles[i], mid.bugs[j])
                /\ Overlap(mid.projectiles[i], mid.powerUps[k])

\* C12: collecting a power-up of type X removes exactly the bugs whose type
\* maps to X, appends X to the collected list and adds exactly 1000 to the
\* score; kill counters stay.
C12_CollectEliminatesType ==
    \A k \in DOMAIN powerUps :
        LET powerUp == powerUps[k]
            post == collectPowerUp(removePowerUp(State, k), powerUp)
        IN /\ post.bugs =
                 SelectSeq(bugs,
                           LAMBDA b : bugToPowerUpMap[b.type] # powerUp.type)
           /\ post.collectedPowerUps = Append(collectedPowerUps, powerUp.type)
           /\ powerUp.type \in Range(post.collectedPowerUps)
           /\ post.score = score + powerUpScore
           /\ post.bugStats = bugStats
           /\ post.powerUps = RemoveAt(powerUps, k)

\* a power-up was collected and eliminated one of two bugs
C12_OneBugEliminated ==
    /\ isRunning
    /\ Len(collectedPowerUps) = 1
    /\ score = powerUpScore
    /\ nextBugId = 3 /\ Len(bugs) = 1

\* C13: between ticks no live bug has a type whose power-up has been
\* collected in the session.
C13_NoBugOfEliminatedType ==
    \A i \in DOMAIN bugs :
        bugToPowerUpMap[bugs[i].type] \notin Range(collectedPowerUps)

\* a bug is alive after a power-up has been collected
C13_BugAfterCollection ==
    /\ isRunning
    /\ collectedPowerUps # <<>>
    /\ bugs # <<>>

\* C14: the player is inside the field, and stays inside under updatePlayer
\* for every direction and under movePlayer for every deltaX.
C14_PlayerStaysInField ==
    LET InField(s) == s.player.x \in 0..(gameWidth - s.player.width)
    IN /\ InField(State)
       /\ \A direction \in {-1, 0, 1} : InField(updatePlayer(State, direction))
       /\ \A deltaX \in (-(gameWidth + 1))..(gameWidth + 1) :
              InField(movePlayer(State, deltaX))

\* the player has moved to the right edge of the field
C14_PlayerAtRightEdge ==
    /\ isRunning
    /\ player.x = gameWidth - player.width


-----------------------------------------------------------------------------
(* Properties of the ids and of the removal operations (Spec) *)

IdsIncrease(entities) ==
    \A a, b \in DOMAIN entities : a < b => entities[a].id < entities[b].id

\* the ids that entered the collection are among those the counter passed
\* in the step (an entity may be created and removed in one tick)
FreshIds(old, new, next, nextAfter) ==
    /\ nextAfter >= next
    /\ Ids(new) \ Ids(old) \subseteq next..(nextAfter - 1)
    /\ \A id \in Ids(old) : id < next
    /\ IdsIncrease(new)

\* C16: startNewGame sets the id counters to 1; in every other step the ids
\* that enter a collection are the next values of its counter, which never
\* goes back, and the ids of a collection are strictly increasing, hence
\* unique and never reused.
C16_IdsFreshAndIncreasing ==
    [][IF StartGameTimeout
       THEN /\ nextProjectileId' = 1 /\ nextBugId' = 1 /\ nextPowerUpId' = 1
            /\ projectiles' = <<>> /\ bugs' = <<>> /\ powerUps' = <<>>
       ELSE /\ FreshIds(projectiles, projectiles',
                        nextProjectileId, nextProjectileId')
            /\ FreshIds(bugs, bugs', nextBugId, nextBugId')
            /\ FreshIds(powerUps, powerUps', nextPowerUpId, nextPowerUpId')
      ]_vars

\* a second bug has been spawned after the first was removed
C16_SecondBugAfterRemoval ==
    /\ isRunning
    /\ Len(bugs) = 1 /\ bugs[1].id = 2
    /\ nextProjectileId > 2

\* C20: calling a removal operation again for an entity that it has
\* removed does not throw and changes nothing.
C20_RemovalIsIdempotent ==
    /\ \A i \in DOMAIN projectiles :
          LET once == removeProjectile(State, i)
          IN /\ ~removalThrows(once.projectiles, i)
             /\ removeProjectile(once, i) = once
    /\ \A i \in DOMAIN bugs :
          LET once == removeBug(State, i)
          IN /\ ~removalThrows(once.bugs, i)
             /\ removeBug(once, i) = once
    /\ \A i \in DOMAIN powerUps :
          LET once == removePowerUp(State, i)
          IN /\ ~removalThrows(once.powerUps, i)
             /\ removePowerUp(once, i) = once

\* C23: whenever the session is in gameover, the stored result summary
\* agrees with the session: score, kills in total and per type, number of
\* collections and time taken.
C23_ResultAgreesWithSession ==
    gameState = "gameover"
        => /\ lastGameResult.score = score
           /\ lastGameResult.bugsKilled = Kills(State)
           /\ lastGameResult.bugStats = bugStats
           /\ lastGameResult.powerupsCollected = Len(collectedPowerUps)
           /\ lastGameResult.timeTaken = gameTime - timeLeft

\* the entity with this id
Entity(entities, id) == CHOOSE e \in Range(entities) : e.id = id

\* every entity of the collection before the tick is, after the moves,
\* either gone or dy further
MovedBy(before, after, dy) ==
    \A e \in Range(before) :
        e.id \in Ids(after) => Entity(after, e.id) = [e EXCEPT !.y = @ + dy]

\* the entities that entered the collection in the tick are where they
\* were created
SpawnedAt(before, after, y) ==
    \A e \in Range(after) : e.id \notin Ids(before) => e.y = y

\* C24: in a tick every live projectile, bug and power-up is moved first;
\* then entities spawn, unmoved; then the collisions are resolved on these
\* positions: a projectile goes exactly if it overlaps, where it now is, a
\* bug or a power-up, a target goes with it, and what stays is where the
\* moves and the spawning left it.
C24_MoveSpawnThenCollide ==
    (isRunning /\ ~isPaused)
        => \A in \in FrameInputs(State, World) :
              LET mid == moveAndSpawn(State, in)
                  post == update(State, in)
                  targets == Range(mid.bugs) \cup Range(mid.powerUps)
                  gone == (Range(mid.bugs) \ Range(post.bugs))
                             \cup (Range(mid.powerUps) \ Range(post.powerUps))
              IN /\ MovedBy(projectiles, mid.projectiles, -projectileSpeed)
                 /\ MovedBy(bugs, mid.bugs, bugSpeed)
                 /\ MovedBy(powerUps, mid.powerUps, powerUpSpeed)
                 /\ SpawnedAt(bugs, mid.bugs, -bugSize)
                 /\ SpawnedAt(powerUps, mid.powerUps, -powerUpSize)
                 /\ Ids(mid.projectiles) \subseteq Ids(projectiles)
                 /\ Range(post.projectiles) \subseteq Range(mid.projectiles)
                 /\ Range(post.bugs) \subseteq Range(mid.bugs)
                 /\ Range(post.powerUps) \subseteq Range(mid.powerUps)
                 /\ \A p \in Range(mid.projectiles) :
                        /\ p \notin Range(post.projectiles)
                              => \E target \in gone : Overlap(p, target)
                        /\ (\A target \in targets : ~Overlap(p, target))
                              => p \in Range(post.projectiles)

\* a tick is about to move a projectile onto a bug that it does not
\* overlap before the moves
C24_HitOnlyAfterMove ==
    /\ isRunning /\ ~isPaused
    /\ \E in \in FrameInputs(State, World) :
          LET mid == moveAndSpawn(State, in)
          IN \E p \in Range(projectiles), b \in Range(bugs) :
                /\ ~Overlap(p, b)
                /\ p.id \in Ids(mid.projectiles) /\ b.id \in Ids(mid.bugs)
                /\ Overlap(Entity(mid.projectiles, p.id), Entity(mid.bugs, b.id))

\* C25: Escape on the settled game screen ends the running session with
\* success = false and the message 'Game cancelled', and the screen that
\* the transition then shows is the menu screen.
C25_EscapeReturnsToMenu ==
    [][(KeyEscape /\ currentScreen = "game-screen" /\ isRunning)
          => /\ gameState' = "gameover" /\ ~isRunning'
             /\ ~lastGameResult'.success
             /\ lastGameResult'.message = "Game cancelled"
             /\ isTransitioning' /\ pendingShow' = "menu-screen"
      ]_vars

\* C26: a power-up that spawnPowerUp creates, called directly or in a tick,
\* has a type that is not in the collected list at that time, and with all
\* four types collected spawnPowerUp creates nothing, whatever it draws.
C26_PowerUpsOfUncollectedTypesOnly ==
    /\ \A pick \in 1..Len(powerUpTypes), x \in PowerUpXs :
          LET post == spawnPowerUp(State, pick, x)
          IN IF AllPowerUpTypes \subseteq Collected
             THEN post = State
             ELSE pick <= Len(availablePowerUps(State))
                     => /\ Len(post.powerUps) = Len(powerUps) + 1
                        /\ post.powerUps[Len(post.powerUps)].type \notin Collected
    /\ (isRunning /\ ~isPaused)
          => \A in \in FrameInputs(State, Pipeline) :
                LET mid == moveAndSpawn(State, in)
                IN \A e \in Range(mid.powerUps) :
                      e.id \notin Ids(powerUps) => e.type \notin Collected

\* three types are collected and a power-up is falling
C26_LastTypeFalling ==
    /\ isRunning
    /\ Cardinality(Collected) = pipelineLength - 1
    /\ powerUps # <<>>

\* C29: between one startNewGame and the next the screen layer is told at
\* most once that the session has ended.
C29_SessionEndsOnce ==
    endCalls <= 1

\* the ids a counter has issued whose entities have left the collection
Destroyed(entities, next) == (1..(next - 1)) \ Ids(entities)

\* C21: between the callbacks of a session the display has been told
\* exactly of the destroyed entities of each kind that they are gone, and no
\* removal or update notification has named an id whose removal had been
\* notified before.
C21_OneRemovalNoticePerDestroyedEntity ==
    /\ ~staleNotice
    /\ removedIds.projectiles = Destroyed(projectiles, nextProjectileId)
    /\ removedIds.bugs = Destroyed(bugs, nextBugId)
    /\ removedIds.powerUps = Destroyed(powerUps, nextPowerUpId)

\* in a running session a projectile has left by the top, another has
\* killed a bug, and a power-up has been missed
C21_AllKindsDestroyed ==
    /\ isRunning
    /\ removedIds.projectiles = {1, 2}
    /\ removedIds.bugs # {}
    /\ removedIds.powerUps # {}
    /\ score = killScore


-----------------------------------------------------------------------------
(* The start of a session under every display (SpecBounds) *)

\* widths and heights a display may report: around 0 and around the minima
DimensionValues == {-1, 0, 1, 299, 300, 301, 399, 400, 401, 1000}

DisplayReports ==
    {[kind |-> k] : k \in {"none", "throws", "invalid"}} \cup
    {[kind |-> "dimensions", width |-> w, height |-> h] :
        w \in DimensionValues, h \in DimensionValues}

InitBounds ==
    /\ displayReport \in DisplayReports
    /\ InitGame
    /\ introTimer = FALSE
    /\ InitializerDone
    /\ LeaderboardEmpty

\* the window is resized, or the display changes what it reports
DisplayChanges ==
    /\ ~isRunning
    /\ \E report \in DisplayReports :
          Becomes([State EXCEPT !.displayReport = report])

NextBounds ==
    \/ DisplayChanges
    \/ ClickStartNewGame
    \/ ClickStartFromInstructions
    \/ ShowScreenTimeout
    \/ StartGameTimeout

SpecBounds == InitBounds /\ [][NextBounds]_vars

-----------------------------------------------------------------------------
(* Session after session (SpecRestart) *)

RestartProjectiles == 2
MaxChains == 2
RestartBugs == 1
RestartPowerUps == 1

\* the environment of the restart explorations: the player stands still
Restart ==
    [projectiles |-> RestartProjectiles, bugs |-> RestartBugs,
     powerUps |-> RestartPowerUps, bugPicks |-> 1, powerUpPicks |-> 1,
     directions |-> {0}]

\* the click on 'play again' of the game-over screen.  The screen has been
\* shown for a moment: a frame requested before the session ended has run.
ClickPlayAgain ==
    /\ currentScreen = "game-over-screen" /\ ~isTransitioning
    /\ ~startPending
    /\ isRunning \/ rafPending = 0
    /\ rafPending < MaxChains
    /\ Becomes(startGame(State))

NextRestart ==
    \/ ClickStartNewGame
    \/ ClickStartFromInstructions
    \/ ShowScreenTimeout
    \/ StartGameTimeout
    \/ ClickPlayAgain
    \/ KeyEscape
    \/ WindowBlur
    \/ KeyShoot(Restart)
    \/ GameLoop(Restart)
    \/ TimerTick

SpecRestart == Init /\ [][NextRestart]_vars

\* C15: the score is a natural number; no step lowers it but startNewGame,
\* which sets it to 0.
C15_ScoreNeverDecreases ==
    [][/\ score \in Nat /\ score' \in Nat
       /\ score' < score => (StartGameTimeout /\ score' = 0)
       /\ StartGameTimeout => score' = 0
      ]_vars

\* a new session has started at 0 after a session that scored
C15_ScoreBackAtZero ==
    /\ gameState = "playing"
    /\ score = 0
    /\ lastGameResult.message # "none"
    /\ lastGameResult.score >= powerUpScore + killScore

-----------------------------------------------------------------------------
(* Errors in the tick (SpecFault) *)

\* how many calls of update return before the throw
ThrowPoints == 0..6

\* the browser runs a requested frame callback and the update, or the
\* render after it, throws
GameLoopThrows(env) ==
    /\ rafPending > 0
    /\ isRunning /\ ~isPaused
    /\ \E in \in FrameInputs(State, env), steps \in ThrowPoints :
          Becomes(gameLoopThrows([State EXCEPT !.rafPending = @ - 1], in, steps))

NextFault ==
    \/ ClickStartNewGame
    \/ ClickStartFromInstructions
    \/ ShowScreenTimeout
    \/ StartGameTimeout
    \/ WindowBlur
    \/ KeyEscape
    \/ KeyShoot(Restart)
    \/ GameLoop(Restart)
    \/ GameLoopThrows(Restart)
    \/ TimerTick

SpecFault == Init /\ [][NextFault]_vars

-----------------------------------------------------------------------------
(* The impatient user (SpecEarlyEscape): Escape is pressed in the 100 ms     *)
(* between the end of the transition to the game screen (300 ms after the    *)
(* click on 'start') and startGame's timeout (400 ms), which then starts a   *)
(* session under the game-over screen.                                       *)

\* the Escape key on the game screen before startNewGame has run
KeyEscapeBeforeStart ==
    /\ currentScreen = "game-screen" /\ ~isTransitioning
    /\ startPending
    /\ Becomes(handleGlobalKeyNavigation(inputEscape(State)))

NextEarlyEscape ==
    \/ ClickStartNewGame
    \/ ClickStartFromInstructions
    \/ ShowScreenTimeout
    \/ StartGameTimeout
    \/ KeyEscape
    \/ KeyEscapeBeforeStart
    \/ ClickPlayAgain
    \/ KeyShoot(Restart)
    \/ GameLoop(Restart)
    \/ TimerTick

SpecEarlyEscape == Init /\ [][NextEarlyEscape]_vars

\* the phase of the session: the code keeps 'paused' in the flag isPaused
Phase(s) ==
    IF s.gameState = "playing" /\ s.isPaused THEN "paused" ELSE s.gameState

\* C22: the phase follows menu -> playing -> {paused <-> playing} ->
\* gameover: pausing a playing session gives paused, resuming a paused one
\* gives playing, the menu is left for playing only, and gameover is entered
\* from a session that plays (paused or not) only.
C22_PhaseFollowsStateMachine ==
    [][/\ Phase(State) = "playing"
             => /\ Phase(pauseGame(State)) = "paused"
                /\ Phase(togglePause(State)) = "paused"
                /\ isRunning => Phase(autoPause(State)) = "paused"
       /\ Phase(State) = "paused"
             => /\ Phase(resumeGame(State)) = "playing"
                /\ Phase(togglePause(State)) = "playing"
       /\ (gameState = "menu" /\ gameState' # "menu") => gameState' = "playing"
       /\ (gameState' = "gameover" /\ gameState # "gameover")
             => gameState = "playing"
      ]_vars

\* C27: at most one frame callback is requested at any time, and exactly
\* one while a session runs: the simulation advances once per frame,
\* whatever the state startNewGame was called in.
C27_OneCallbackChain ==
    /\ rafPending <= 1
    /\ isRunning => rafPending = 1

\* the browser fires at most one countdown interval, the one whose handle
\* the game holds
OneTimer(s) ==
    /\ Cardinality(s.activeTimers) <= 1
    /\ s.activeTimers \subseteq {s.timerInterval}

\* C28: at most one countdown interval is active, now and after every
\* sequence of up to two of startNewGame, endGame and destroy; startNewGame
\* leaves exactly one, endGame and destroy none; a countdown callback takes
\* at most one from the countdown.
C28_OneCountdownTimer ==
    LET calls(s) == {startNewGame(s), endGame(s, FALSE, "Game cancelled"),
                     destroy(s)}
    IN /\ OneTimer(State)
       /\ \A s1 \in calls(State) :
             /\ OneTimer(s1)
             /\ \A s2 \in calls(s1) : OneTimer(s2)
             /\ Cardinality(startNewGame(s1).activeTimers) = 1
             /\ endGame(s1, FALSE, "Game cancelled").activeTimers = {}
             /\ destroy(s1).activeTimers = {}
       /\ timerCallback(State).timeLeft \in {timeLeft - 1, timeLeft}

\* a session has been started while another was running, and one countdown
\* interval is active
C28_StartedOnRunningSession ==
    /\ isRunning
    /\ rafPending = 2
    /\ Cardinality(activeTimers) = 1

\* C30: the countdown is between 0 and gameTime in every reachable state,
\* and so is the time taken of the stored result summary and of the summary
\* getGameResult would compute.
C30_CountdownWithinGameTime ==
    /\ timeLeft \in 0..gameTime
    /\ lastGameResult # NoResult => lastGameResult.timeTaken \in 0..gameTime
    /\ gameResult(State, FALSE, "Game incomplete").timeTaken \in 0..gameTime

\* a session that startNewGame started under the game-over screen has
\* counted down to 0 and reports the whole game time
C30_SecondSessionTimedOut ==
    /\ gameState = "gameover"
    /\ timeLeft = 0
    /\ lastGameResult.message = TimeUpMessage
    /\ lastGameResult.timeTaken = gameTime
    /\ currentScreen = "game-over-screen" /\ isTransitioning


-----------------------------------------------------------------------------
(* Properties of the score and of shooting *)

\* C31: between the handlers the score is 10 times the kills plus 1000
\* times the number of collections.
C31_ScoreIsKillsAndCollections ==
    score = killScore * Kills(State) + powerUpScore * Len(collectedPowerUps)

\* a session has two collections and a kill
C31_TwoCollectionsOneKill ==
    /\ Len(collectedPowerUps) = 2
    /\ Kills(State) = 1
    /\ score = 2 * powerUpScore + killScore

\* C32: shoot changes nothing while the session is not running or is
\* paused; otherwise it appends exactly one projectile, with the next id,
\* centred on the player and the start offset above the player's top, and
\* takes one id.
C32_ShootOnlyWhenPlaying ==
    LET post == shoot(State)
    IN IF ~isRunning \/ isPaused
       THEN post = State
       ELSE LET p == post.projectiles[Len(post.projectiles)]
            IN /\ post = [State EXCEPT !.projectiles = Append(projectiles, p),
                                       !.nextProjectileId = nextProjectileId + 1,
                                       !.gameObjects = post.gameObjects]
               /\ p.id = nextProjectileId
               /\ 2 * p.x + p.width = 2 * player.x + player.width
               /\ p.y = player.y - projectileStartOffset
               /\ p.width = projectileSize /\ p.height = projectileHeight

\* the session is paused with one projectile in flight and the player away
\* from the centre
C32_PausedAfterOneShot ==
    /\ isRunning /\ isPaused
    /\ Len(projectiles) = 1 /\ nextProjectileId = 2
    /\ player.x = 0


-----------------------------------------------------------------------------
(* Every session ends (SpecLive): session after session, and the browser    *)
(* keeps firing the countdown interval.                                     *)

\* the countdown callback seen on timeLeft: timerCallback changes the state
\* exactly when it decrements timeLeft
CountdownFires ==
    /\ activeTimers # {}
    /\ timeLeft' = timerCallback(State).timeLeft

SpecLive == Init /\ [][NextRestart]_vars /\ WF_timeLeft(CountdownFires)

\* the steps the fairness condition is about are the steps of TimerTick
CountdownFiresIsTimerTick ==
    [][(CountdownFires /\ timeLeft' # timeLeft) <=> (TimerTick /\ vars' # vars)]_vars

\* C33: if no session stays paused for ever, every session that is playing
\* reaches gameover.
C33_UnpausedSessionEnds ==
    ([]<>(~isPaused)) => ((gameState = "playing") ~> (gameState = "gameover"))

\* a session in which nothing was spawned or shot has been ended by the
\* countdown
C33_EndedByCountdownAlone ==
    /\ gameState = "gameover"
    /\ lastGameResult.message = TimeUpMessage
    /\ nextBugId = 1 /\ nextPowerUpId = 1 /\ nextProjectileId = 1

-----------------------------------------------------------------------------
(* The screen of a running session (SpecIntro): the intro was skipped with *)
(* a key or a click, so the menu is shown while the timeout that            *)
(* playIntroSequence set is still pending.                                  *)

InitIntro ==
    /\ displayReport = [kind |-> "dimensions", width |-> 800, height |-> 600]
    /\ InitGame
    /\ introTimer = TRUE
    /\ InitializerDone
    /\ LeaderboardEmpty

\* the timeout of playIntroSequence: showScreen('menu-screen'), whatever
\* the page shows by then
IntroTimeout ==
    /\ introTimer
    /\ Becomes(showScreen([State EXCEPT !.introTimer = FALSE], "menu-screen"))

NextIntro ==
    \/ IntroTimeout
    \/ NextRestart

SpecIntro == InitIntro /\ [][NextIntro]_vars

\* C34: while a session is running the screen shown is the game screen.
C34_RunningOnGameScreen ==
    isRunning => currentScreen = "game-screen"

-----------------------------------------------------------------------------
(* The tracking map of the DOM display *)

\* C35: every live entity is tracked under its id with its own element.
C35_LiveEntityTracksOwnElement ==
    \A kind \in {"projectiles", "bugs", "powerUps"} :
        \A i \in 1..Len(State[kind]) :
            [key |-> State[kind][i].id,
             element |-> Element(kind, State[kind][i].id)] \in gameObjects

-----------------------------------------------------------------------------
(* GameInitializer (js/init.js): the start of the page.  The timeouts of    *)
(* initializeComponents fire in their order (0, 100, ... 500 ms), a retry   *)
(* 500 ms times the number of failures after the failure, the fallback     *)
(* after 5 s; window.display.init() loads images and takes any time.        *)

maxRetries == 10

\* how many components' classes or globals may be missing when the page
\* starts
MaxMissing == 2

\* the initializer's state as one record
Initializer ==
    [initialized |-> initialized, retryAttempts |-> retryAttempts,
     staggered |-> staggered, retryTimers |-> retryTimers,
     fallbackTimer |-> fallbackTimer, missing |-> missing,
     displayCreated |-> displayCreated, awaiting |-> awaiting,
     readyHandlers |-> readyHandlers]

InitializerBecomes(s) ==
    /\ initialized' = s.initialized
    /\ retryAttempts' = s.retryAttempts
    /\ staggered' = s.staggered
    /\ retryTimers' = s.retryTimers
    /\ fallbackTimer' = s.fallbackTimer
    /\ missing' = s.missing
    /\ displayCreated' = s.displayCreated
    /\ awaiting' = s.awaiting
    /\ readyHandlers' = s.readyHandlers
    /\ UNCHANGED <<gameVars, leaderboardVars>>

\* how an initializer ends
Returns(s) == [state |-> s, throws |-> FALSE]
Throws(s) == [state |-> s, throws |-> TRUE]

allReady(s) == \A i \in DOMAIN initOrder : s.initialized[initOrder[i]]

onAllSystemsReady(s) ==
    IF allReady(s) THEN [s EXCEPT !.readyHandlers = @ + 1] ELSE s

initializeDebug(s) ==
    IF "debug" \notin s.missing
    THEN Returns([s EXCEPT !.initialized["debug"] = TRUE])
    ELSE Throws(s)

\* up to its await
initializeDisplay(s) ==
    IF "display" \in s.missing THEN Throws(s)
    ELSE IF ~s.displayCreated
    THEN Returns([s EXCEPT !.displayCreated = TRUE,
                           !.awaiting = "initializeDisplay"])
    ELSE Returns([s EXCEPT !.initialized["display"] = TRUE])

\* initializeDisplay after its await
initializeDisplayResumed(s) ==
    [s EXCEPT !.awaiting = "none", !.initialized["display"] = TRUE]

initializeInput(s) ==
    IF "input" \in s.missing THEN Throws(s)
    ELSE Returns([s EXCEPT !.initialized["input"] = TRUE])

\* initializeGame as it would be without the check of the display
initializeGame_NoDisplayCheck(s) ==
    IF "game" \in s.missing THEN Throws(s)
    ELSE Returns([s EXCEPT !.initialized["game"] = TRUE])

initializeGame(s) ==
    IF ~s.initialized["display"] THEN Throws(s)
    ELSE IF "game" \in s.missing THEN Throws(s)
    ELSE Returns([s EXCEPT !.initialized["game"] = TRUE])

initializeScreens(s) ==
    IF ~s.initialized["game"] THEN Throws(s)
    ELSE IF "screens" \in s.missing THEN Throws(s)
    ELSE Returns([s EXCEPT !.initialized["screens"] = TRUE])

\* with or without the LeaderboardManager class, and whether or not its
\* constructor throws
initializeLeaderboard(s) ==
    Returns(onAllSystemsReady([s EXCEPT !.initialized["leaderboard"] = TRUE]))

\* the switch of initializeComponent
runInitializer(s, component) ==
    CASE component = "debug" -> initializeDebug(s)
      [] component = "display" -> initializeDisplay(s)
      [] component = "input" -> initializeInput(s)
      [] component = "game" -> initializeGame(s)
      [] component = "screens" -> initializeScreens(s)
      [] component = "leaderboard" -> initializeLeaderboard(s)

\* initializeComponent as it would be without the limit on the retries
initializeComponent_NoLimit(s, component) ==
    IF s.initialized[component] THEN s
    ELSE LET r == runInitializer(s, component)
         IN IF r.throws
            THEN [r.state EXCEPT !.retryAttempts[component] = @ + 1,
                                 !.retryTimers = @ \cup {component}]
            ELSE r.state

initializeComponent(s, component) ==
    IF s.initialized[component] THEN s
    ELSE IF s.retryAttempts[component] >= maxRetries THEN s
    ELSE LET r == runInitializer(s, component)
         IN IF r.throws
            THEN [r.state EXCEPT !.retryAttempts[component] = @ + 1,
                                 !.retryTimers = @ \cup {component}]
            ELSE r.state

\* 'Mark all as initialized', in the try block or in the catch block
markAllInitialized(s) ==
    [s EXCEPT !.initialized = [c \in Components |-> TRUE]]

\* up to its await, or to its end
fallbackInitialization(s) ==
    IF ~s.displayCreated /\ "display" \notin s.missing
    THEN [s EXCEPT !.displayCreated = TRUE,
                   !.awaiting = "fallbackInitialization"]
    ELSE markAllInitialized(s)

fallbackInitializationResumed(s) ==
    markAllInitialized([s EXCEPT !.awaiting = "none"])

\* the 5 s timeout of initializeComponents
fallbackCallback(s) ==
    IF ~allReady(s) THEN fallbackInitialization(s) ELSE s

\* the page loads: the constructor and initializeComponents have run
InitInitializer ==
    /\ displayReport = [kind |-> "dimensions", width |-> 800, height |-> 600]
    /\ InitGame
    /\ introTimer = FALSE
    /\ initialized = [c \in Components |-> FALSE]
    /\ retryAttempts = [c \in Components |-> 0]
    /\ staggered = 0
    /\ retryTimers = {}
    /\ fallbackTimer = TRUE
    /\ missing \in {m \in SUBSET Components : Cardinality(m) <= MaxMissing}
    /\ displayCreated \in BOOLEAN
    /\ awaiting = "none"
    /\ readyHandlers = 0
    /\ LeaderboardEmpty

\* the next of the staggered timeouts
StaggerTimeout ==
    /\ staggered < Len(initOrder)
    /\ InitializerBecomes(
           initializeComponent([Initializer EXCEPT !.staggered = @ + 1],
                               initOrder[staggered + 1]))

\* a retry timeout; the fifth attempt and the later ones fall due 5 s after
\* the first or later
RetryTimeout ==
    \E component \in retryTimers :
        /\ retryAttempts[component] >= 4 => ~fallbackTimer
        /\ InitializerBecomes(
               initializeComponent(
                   [Initializer EXCEPT !.retryTimers = @ \ {component}],
                   component))

\* the fallback timeout, after the timeouts due before 5 s
FallbackTimeout ==
    /\ fallbackTimer
    /\ staggered = Len(initOrder)
    /\ \A component \in retryTimers : retryAttempts[component] >= 4
    /\ InitializerBecomes(
           fallbackCallback([Initializer EXCEPT !.fallbackTimer = FALSE]))

\* window.display.init() resolves: the images have loaded or failed to
DisplayInitResolves ==
    /\ awaiting = "initializeDisplay"
    /\ InitializerBecomes(initializeDisplayResumed(Initializer))

FallbackResumes ==
    /\ awaiting = "fallbackInitialization"
    /\ InitializerBecomes(fallbackInitializationResumed(Initializer))

\* a script that was missing has loaded
ScriptLoads ==
    \E component \in missing :
        InitializerBecomes([Initializer EXCEPT !.missing = @ \ {component}])

NextInitializer ==
    \/ StaggerTimeout
    \/ RetryTimeout
    \/ FallbackTimeout
    \/ DisplayInitResolves
    \/ FallbackResumes
    \/ ScriptLoads

SpecInitializer == InitInitializer /\ [][NextInitializer]_vars

\* C36: the marks respect the dependency order.
C36_MarksRespectDependencies ==
    /\ initialized["game"] => initialized["display"]
    /\ initialized["screens"] => initialized["game"]

\* the game came up on a retry, after the display, without the fallback
C36_GameAfterDisplayOnRetry ==
    /\ initialized["game"] /\ initialized["display"]
    /\ retryAttempts["game"] > 0
    /\ fallbackTimer
    /\ ~initialized["screens"]

\* C37: the retries are bounded, and after maxRetries failures
\* initializeComponent does nothing.
C37_RetriesBounded ==
    \A component \in Components :
        /\ retryAttempts[component] <= maxRetries
        /\ retryAttempts[component] = maxRetries
              => initializeComponent(Initializer, component) = Initializer

\* a component has failed maxRetries times and its last timeout has run
C37_GaveUp ==
    \E component \in Components :
        /\ retryAttempts[component] = maxRetries
        /\ ~initialized[component]
        /\ component \notin retryTimers

\* C38: when all six components are initialized the handlers have been
\* installed, once.
C38_ReadyHandlersInstalledOnce ==
    allReady(Initializer) => readyHandlers = 1

-----------------------------------------------------------------------------
(* LeaderboardManager: the entries in memory and in localStorage.  The     *)
(* statistics and the table on the page are left out.  The leaderboard of  *)
(* the model keeps MAX_ENTRIES entries, a scaled-down value like the       *)
(* lengths of the game.                                                    *)

MAX_ENTRIES == 2
legacyTimeTaken == 90

\* how many scores are submitted, and the name typed
MaxSubmits == 3
Names == {"AAA"}

\* the keys of an entry, in the order submitScore writes them (bugStats and
\* the date string are left out)
EntryKeys ==
    <<"name", "score", "timeTaken", "bugsKilled", "powerupsCollected",
      "pipelineComplete", "timestamp">>

\* JSON.stringify of an array of entries: for each entry its members, key
\* and value, in the entry's key order
JSONstringify(array) ==
    [i \in 1..Len(array) |->
        LET keys == SelectSeq(EntryKeys, LAMBDA k : k \in DOMAIN array[i])
        IN [j \in 1..Len(keys) |-> <<keys[j], array[i][keys[j]]>>]]

\* JSON.parse of such a text
JSONparse(text) ==
    [i \in 1..Len(text) |->
        [key \in {text[i][j][1] : j \in 1..Len(text[i])} |->
            (CHOOSE member \in Range(text[i]) : member[1] = key)[2]]]

\* the results endGame computes (game.js:670-682): the time taken lies
\* between 0 and the game time, the score is that of the kills and the
\* collections, the session succeeds when the pipeline is complete
GameResults ==
    {[success |-> collected = pipelineLength,
      score |-> killScore * kills + powerUpScore * collected,
      timeTaken |-> taken,
      bugsKilled |-> kills,
      powerupsCollected |-> collected] :
        taken \in 0..gameTime, kills \in 0..1, collected \in {0, pipelineLength}}

\* the leaderboard's state as one record
Leaderboard ==
    [leaderboard |-> leaderboard, storedLeaderboard |-> storedLeaderboard,
     now |-> now]

LeaderboardBecomes(s) ==
    /\ leaderboard' = s.leaderboard
    /\ storedLeaderboard' = s.storedLeaderboard
    /\ now' = s.now

\* Array.prototype.sort((a, b) => b.score - a.score): stable, by falling
\* score
RECURSIVE SortByScore(_)
SortByScore(array) ==
    IF Len(array) <= 1 THEN array
    ELSE LET sorted == SortByScore(SubSeq(array, 1, Len(array) - 1))
             last == array[Len(array)]
             before == SelectSeq(sorted, LAMBDA e : e.score >= last.score)
             after == SelectSeq(sorted, LAMBDA e : e.score < last.score)
         IN before \o <<last>> \o after

\* saveData as it would be without the limit on the entries
saveData_NoLimit(s) ==
    LET sorted == SortByScore(s.leaderboard)
    IN [s EXCEPT !.leaderboard = sorted,
                 !.storedLeaderboard = JSONstringify(sorted)]

saveData(s) ==
    LET sorted == SortByScore(s.leaderboard)
        limited == IF Len(sorted) > MAX_ENTRIES
                   THEN SubSeq(sorted, 1, MAX_ENTRIES)
                   ELSE sorted
    IN [s EXCEPT !.leaderboard = limited,
                 !.storedLeaderboard = JSONstringify(limited)]

\* the entry submitScore builds
NewEntry(s, playerName, result) ==
    [name |-> playerName,
     score |-> result.score,
     timeTaken |-> result.timeTaken,
     bugsKilled |-> result.bugsKilled,
     powerupsCollected |-> result.powerupsCollected,
     pipelineComplete |-> result.success,
     timestamp |-> s.now]

submitScore(s, playerName, result) ==
    saveData([s EXCEPT !.leaderboard = Append(@, NewEntry(s, playerName, result))])

\* one entry through migrateOldData
migrateEntry(s, entry) ==
    LET e1 == IF "timestamp" \notin DOMAIN entry \/ entry.timestamp = 0
              THEN [key \in DOMAIN entry \cup {"timestamp"} |->
                       IF key = "timestamp" THEN s.now ELSE entry[key]]
              ELSE entry
        e2 == IF "pipelineComplete" \notin DOMAIN e1
              THEN [key \in DOMAIN e1 \cup {"pipelineComplete"} |->
                       IF key = "pipelineComplete"
                       THEN "powerupsCollected" \in DOMAIN e1
                            /\ e1.powerupsCollected = 4
                       ELSE e1[key]]
              ELSE e1
    IN IF "timeTaken" \notin DOMAIN e2 \/ e2.timeTaken = 0
       THEN [key \in DOMAIN e2 \cup {"timeTaken"} |->
                IF key = "timeTaken" THEN legacyTimeTaken ELSE e2[key]]
       ELSE e2

migrateOldData(s) ==
    saveData([s EXCEPT !.leaderboard =
                 [i \in 1..Len(s.leaderboard) |-> migrateEntry(s, s.leaderboard[i])]])

\* loadData of a new LeaderboardManager
loadData(s) ==
    migrateOldData([s EXCEPT !.leaderboard = JSONparse(s.storedLeaderboard)])

\* data: the leaderboard array of the imported file
importData(s, data) ==
    LET newEntries ==
            SelectSeq(data, LAMBDA entry :
                ~\E i \in 1..Len(s.leaderboard) :
                    /\ s.leaderboard[i].name = entry.name
                    /\ s.leaderboard[i].score = entry.score
                    /\ s.leaderboard[i].timestamp = entry.timestamp)
    IN saveData([s EXCEPT !.leaderboard = @ \o newEntries])

resetData(s) == saveData([s EXCEPT !.leaderboard = <<>>])

\* the files the user imports: exports of another browser
ImportFiles ==
    {<<[name |-> "ZED", score |-> powerUpScore, timeTaken |-> 1,
        bugsKilled |-> 0, powerupsCollected |-> 1,
        pipelineComplete |-> FALSE, timestamp |-> 1]>>,
     <<[name |-> "ZED", score |-> powerUpScore, timeTaken |-> 1,
        bugsKilled |-> 0, powerupsCollected |-> 1,
        pipelineComplete |-> FALSE, timestamp |-> 1],
       [name |-> "ZED", score |-> 0, timeTaken |-> 2,
        bugsKilled |-> 0, powerupsCollected |-> 0,
        pipelineComplete |-> FALSE, timestamp |-> 2]>>}

InitLeaderboard ==
    /\ displayReport = [kind |-> "dimensions", width |-> 800, height |-> 600]
    /\ InitGame
    /\ introTimer = FALSE
    /\ InitializerDone
    /\ LeaderboardEmpty

\* a name is typed on the game-over screen: handleScoreSubmission
SubmitScore ==
    /\ now <= MaxSubmits
    /\ \E playerName \in Names, result \in GameResults :
          LeaderboardBecomes(
              [submitScore(Leaderboard, playerName, result) EXCEPT !.now = @ + 1])
    /\ UNCHANGED <<gameVars, initVars>>

\* the page is loaded again: new LeaderboardManager()
PageReload ==
    /\ LeaderboardBecomes(loadData(Leaderboard))
    /\ UNCHANGED <<gameVars, initVars>>

ImportFile ==
    /\ \E data \in ImportFiles :
          LeaderboardBecomes(importData(Leaderboard, data))
    /\ UNCHANGED <<gameVars, initVars>>

ResetScores ==
    /\ LeaderboardBecomes(resetData(Leaderboard))
    /\ UNCHANGED <<gameVars, initVars>>

NextLeaderboard ==
    \/ SubmitScore
    \/ PageReload
    \/ ImportFile
    \/ ResetScores

SpecLeaderboard == InitLeaderboard /\ [][NextLeaderboard]_vars

\* how often an entry occurs in an array
Count(array, entry) ==
    Cardinality({i \in 1..Len(array) : array[i] = entry})

\* array holds the best of the entries of all, sorted
BestOf(array, all) ==
    /\ \A i \in 1..(Len(array) - 1) : array[i].score >= array[i + 1].score
    /\ Len(array) = Min(Len(all), MAX_ENTRIES)
    /\ \A entry \in Range(all) \cup Range(array) :
          /\ Count(array, entry) <= Count(all, entry)
          /\ Count(array, entry) < Count(all, entry)
                => \A i \in 1..Len(array) : array[i].score >= entry.score

\* C39: after saveData the leaderboard is sorted by falling score and has
\* at most MAX_ENTRIES entries, the best ones of those it was given; so it
\* is after submitScore, importData and resetData, and in every state.
C39_SortedAndLimited ==
    /\ BestOf(leaderboard, leaderboard)
    /\ JSONparse(storedLeaderboard) = leaderboard
    /\ \A playerName \in Names, result \in GameResults :
          BestOf(submitScore(Leaderboard, playerName, result).leaderboard,
                 Append(leaderboard, NewEntry(Leaderboard, playerName, result)))
    /\ \A data \in ImportFiles :
          LET post == importData(Leaderboard, data).leaderboard
          IN /\ BestOf(post, post)
             /\ \A i \in 1..Len(post) :
                   post[i] \in Range(leaderboard) \cup Range(data)
    /\ resetData(Leaderboard).leaderboard = <<>>

\* a full leaderboard from which submitScore drops the lowest entry
C39_LowestDropped ==
    /\ Len(leaderboard) = MAX_ENTRIES
    /\ leaderboard[MAX_ENTRIES].score = killScore
    /\ \E playerName \in Names, result \in GameResults :
          /\ result.score > killScore
          /\ leaderboard[MAX_ENTRIES] \notin
                Range(submitScore(Leaderboard, playerName, result).leaderboard)

\* C40: a new LeaderboardManager loads every entry back with the values it
\* was saved with.
C40_ReloadGivesBackEntries ==
    LET reloaded == loadData(Leaderboard).leaderboard
    IN /\ Len(reloaded) = Len(leaderboard)
       /\ \A i \in 1..Len(leaderboard) :
             /\ reloaded[i].score = leaderboard[i].score
             /\ reloaded[i].timeTaken = leaderboard[i].timeTaken
             /\ reloaded[i].bugsKilled = leaderboard[i].bugsKilled
             /\ reloaded[i].powerupsCollected = leaderboard[i].powerupsCollected
             /\ reloaded[i].pipelineComplete = leaderboard[i].pipelineComplete

=============================================================================
